---- MODULE Spec2Model ----
(***************************************************************************)
(* State-machine model of mlopt.Optimizer (src/mlopt/optimizer.py).        *)
(*                                                                         *)
(* Two specifications share the definitions below:                         *)
(*   Spec       training life cycle: train, get_samples, filter_strategies,*)
(*              cache_factors;                                             *)
(*   SpecServe  serving on a trained optimizer: choose_best and solve.     *)
(*                                                                         *)
(* Python lists are sequences; labels are 0-based as in the code, so the   *)
(* strategy of label l is encoding[l + 1].  Python None / a missing        *)
(* attribute is the record None, a present value v is Some(v).             *)
(* Infeasibility, cost and time are integers in units where INFEAS_TOL = 1.*)
(***************************************************************************)
EXTENDS Integers, Sequences, FiniteSets, TLC

VARIABLES
    X_train,        \* self.X_train
    y_train,        \* self.y_train
    encoding,       \* self.encoding
    obj_train,      \* self.obj_train (attribute missing until first set)
    encoding_full,  \* self.encoding_full (missing until filter_strategies)
    y_train_full,   \* self.y_train_full (missing until filter_strategies)
    solver_cache,   \* self._solver_cache
    learner,        \* self._learner
    sampler,        \* self._sampler (missing until samples are encoded)
    theta,          \* parameter currently populated in self._problem
    disc_relaxed,   \* self._problem has its discrete variables relaxed
    is_qp,          \* self._problem.is_qp(), fixed at construction
    exact,          \* what the exact solver returns for each parameter
    last            \* outcome of the last call (return value or exception)

vars == <<X_train, y_train, encoding, obj_train, encoding_full, y_train_full,
          solver_cache, learner, sampler, theta, disc_relaxed, is_qp, exact, last>>

---------------------------------------------------------------------------
(* Bounds of the model *)

\* longest training set / test set
MaxPoints == 2
\* number of distinct strategies the exact solver can return
NumStrategies == 2
\* largest n_best a learner is configured with
MaxNBest == 2

(* Program constants (mlopt.settings), in the model's integer units *)

\* K_MAX_STRATEGIES, scaled so that a training set can exceed it
K_MAX_STRATEGIES == 1
\* INFEAS_TOL: infeasibility <= INFEAS_TOL counts as feasible
INFEAS_TOL == 1

---------------------------------------------------------------------------
(* Python values *)

None == [isNone |-> TRUE, v |-> <<>>]
Some(x) == [isNone |-> FALSE, v |-> x]

NoLearner == [isNone |-> TRUE, n_best |-> 0, n_classes |-> 0]
NoSampler == [isNone |-> TRUE, n1 |-> 0, n |-> 0]

\* the theta "nothing populated yet"
NoTheta == 0

Range(s) == {s[i] : i \in 1..Len(s)}

RECURSIVE Sum(_)
Sum(s) == IF s = <<>> THEN 0 ELSE s[1] + Sum(Tail(s))

Min(S) == CHOOSE x \in S : \A y \in S : x <= y

\* the optimizer's fields as one record
Self ==
    [X_train |-> X_train, y_train |-> y_train, encoding |-> encoding,
     obj_train |-> obj_train, encoding_full |-> encoding_full,
     y_train_full |-> y_train_full, solver_cache |-> solver_cache,
     learner |-> learner, sampler |-> sampler, theta |-> theta,
     disc_relaxed |-> disc_relaxed]

\* the fields after a call
Commit(o) ==
    /\ X_train' = o.X_train
    /\ y_train' = o.y_train
    /\ encoding' = o.encoding
    /\ obj_train' = o.obj_train
    /\ encoding_full' = o.encoding_full
    /\ y_train_full' = o.y_train_full
    /\ solver_cache' = o.solver_cache
    /\ learner' = o.learner
    /\ sampler' = o.sampler
    /\ theta' = o.theta
    /\ disc_relaxed' = o.disc_relaxed

\* a call's outcome: the optimizer after it and the exception it raised
Out(o, e) == [o |-> o, err |-> e]

---------------------------------------------------------------------------
(* Optimizer.__init__ *)

NewOptimizer ==
    [X_train |-> None, y_train |-> None, encoding |-> None,
     obj_train |-> None, encoding_full |-> None, y_train_full |-> None,
     solver_cache |-> None, learner |-> NoLearner, sampler |-> NoSampler,
     theta |-> NoTheta, disc_relaxed |-> FALSE]

(* Optimizer.samples_present *)
samples_present(o) ==
    (~o.X_train.isNone) /\ (~o.y_train.isNone) /\ (~o.encoding.isNone)

---------------------------------------------------------------------------
(* mlopt.strategy.encode_strategies: ids in first-seen order *)

RECURSIVE unique_strategies(_)
unique_strategies(s) ==
    IF s = <<>> THEN <<>>
    ELSE LET u == unique_strategies(SubSeq(s, 1, Len(s) - 1))
             x == s[Len(s)]
         IN IF \E i \in 1..Len(u) : u[i] = x THEN u ELSE Append(u, x)

encode_strategies(s) ==
    LET u == unique_strategies(s)
        id(x) == (CHOOSE i \in 1..Len(u) : u[i] = x) - 1
    IN [labels |-> [i \in 1..Len(s) |-> id(s[i])], encoding |-> u]

(* mlopt.sampling.Sampler.compute_good_turing: N1 / N kept as the pair *)
compute_good_turing(labels) ==
    LET count(l) == Cardinality({i \in 1..Len(labels) : labels[i] = l})
    IN [isNone |-> FALSE,
        n1 |-> Cardinality({l \in Range(labels) : count(l) = 1}),
        n |-> Len(labels)]

---------------------------------------------------------------------------
(* mlopt.filter.Filter.filter(k_max_strategies): keeps at most k of the     *)
(* strategies, renumbers them densely in their old order and gives every    *)
(* sample of a dropped strategy one of the kept ones.  The policy that      *)
(* picks the kept strategies and the substitutes is left open, so every     *)
(* choice is an outcome.                                                    *)

kept_ids(keep, K) ==
    SelectSeq([i \in 1..K |-> i], LAMBDA i : i \in keep)

Filter_filter(y, enc, k) ==
    LET K == Len(enc)
        n == Len(y)
    IN UNION {
         LET ids == kept_ids(keep, K)
             m == Len(ids)
             newid(old) == (CHOOSE j \in 1..m : ids[j] = old + 1) - 1
         IN { [labels |-> nl, encoding |-> [j \in 1..m |-> enc[ids[j]]]] :
                nl \in { f \in [1..n -> 0..(m - 1)] :
                           \A i \in 1..n :
                              (y[i] + 1) \in keep => f[i] = newid(y[i]) } }
         : keep \in { S \in SUBSET (1..K) : S # {} /\ Cardinality(S) <= k } }

(* Optimizer.filter_strategies *)
filter_strategies(o, k_max_strategies) ==
    LET o1 == [o EXCEPT !.encoding_full = o.encoding,
                        !.y_train_full = o.y_train]
    IN IF o.obj_train.isNone
       THEN {Out(o1, "AttributeError: obj_train")}
       ELSE IF o.y_train.isNone \/ o.encoding.isNone
       THEN {Out(o1, "TypeError: filter without samples")}
       ELSE {Out(o1, "FilterInfeasibleError")} \cup
            { Out([o1 EXCEPT !.y_train = Some(f.labels),
                             !.encoding = Some(f.encoding)], "none") :
                f \in Filter_filter(o.y_train.v, o.encoding.v,
                                    k_max_strategies) }

---------------------------------------------------------------------------
(* Optimizer.get_samples *)

\* training inputs: X is the sequence of its points, a point is its id
TrainInputs == { [i \in 1..n |-> i] : n \in 1..MaxPoints }
XArgs == {None} \cup { Some(x) : x \in TrainInputs }

\* self._problem.solve_parametric(X): the exact solver is a function of the
\* parameter; a point it cannot solve has no strategy.  A result that
\* carries a strategy has a status in SOLUTION_PRESENT.
NoStrategy == 0
Thetas == 1..MaxPoints
ExactSolvers == [Thetas -> 0..NumStrategies]
solve_parametric(ex, X) ==
    [i \in 1..Len(X) |-> [strategy |-> ex[X[i]], cost |-> X[i]]]

\* (variant: the check does not look at the samples already present)
args_error_strict(o, X, sampling_fn) ==
    IF X.isNone /\ ~sampling_fn
    THEN "ValueError: not enough arguments"
    ELSE IF ~X.isNone /\ sampling_fn
    THEN "ValueError: only one of X and sampling_fn"
    ELSE "none"

\* the argument check at the head of get_samples
args_error(o, X, sampling_fn) ==
    IF X.isNone /\ ~sampling_fn /\ ~samples_present(o)
    THEN "ValueError: not enough arguments"
    ELSE IF ~X.isNone /\ sampling_fn
    THEN "ValueError: only one of X and sampling_fn"
    ELSE "none"

\* (variant: the old labels and encoding are kept until the new ones exist)
use_new_data_keeping(o, X, ex) ==
    LET o1 == [o EXCEPT !.X_train = Some(X)]
        results == solve_parametric(ex, X)
        n == Len(X)
    IN IF \E i \in 1..n : results[i].strategy = NoStrategy
       THEN Out(o1, "ValueError: infeasible points")
       ELSE LET e == encode_strategies([i \in 1..n |-> results[i].strategy])
            IN Out([o1 EXCEPT !.obj_train =
                                 Some([i \in 1..n |-> results[i].cost]),
                              !.y_train = Some(e.labels),
                              !.encoding = Some(e.encoding),
                              !.sampler = compute_good_turing(e.labels)],
                   "none")

\* the branch "if X is not None"
use_new_data(o, X, ex) ==
    LET o1 == [o EXCEPT !.X_train = Some(X), !.y_train = None,
                        !.encoding = None]
        results == solve_parametric(ex, X)
        n == Len(X)
    IN IF \E i \in 1..n : results[i].strategy = NoStrategy
       THEN Out(o1, "ValueError: infeasible points")
       ELSE LET e == encode_strategies([i \in 1..n |-> results[i].strategy])
            IN Out([o1 EXCEPT !.obj_train =
                                 Some([i \in 1..n |-> results[i].cost]),
                              !.y_train = Some(e.labels),
                              !.encoding = Some(e.encoding),
                              !.sampler = compute_good_turing(e.labels)],
                   "none")

\* Optimizer.sample: Sampler.sample draws points with sampling_fn, solves
\* them and returns X_train, y_train, encoding
sample(o, ex) ==
    { LET results == solve_parametric(ex, X)
          n == Len(X)
      IN IF \E i \in 1..n : results[i].strategy = NoStrategy
         THEN Out(o, "ValueError: infeasible sampled point")
         ELSE LET e == encode_strategies([i \in 1..n |-> results[i].strategy])
              IN Out([o EXCEPT !.X_train = Some(X),
                               !.y_train = Some(e.labels),
                               !.encoding = Some(e.encoding),
                               !.sampler = compute_good_turing(e.labels)],
                     "none")
      : X \in TrainInputs }

\* (variant: the filter is given one strategy more than the budget)
condense_one_more(o, filter) ==
    IF o.encoding.isNone
    THEN {Out(o, "TypeError: len(None)")}
    ELSE IF Len(o.encoding.v) > K_MAX_STRATEGIES /\ filter
    THEN filter_strategies(o, K_MAX_STRATEGIES + 1)
    ELSE {Out(o, "none")}

\* the closing "Condense strategies" step
condense(o, filter) ==
    IF o.encoding.isNone
    THEN {Out(o, "TypeError: len(None)")}
    ELSE IF Len(o.encoding.v) > K_MAX_STRATEGIES /\ filter
    THEN filter_strategies(o, K_MAX_STRATEGIES)
    ELSE {Out(o, "none")}

get_samples(o, X, sampling_fn, filter, ex) ==
    IF args_error(o, X, sampling_fn) # "none"
    THEN {Out(o, args_error(o, X, sampling_fn))}
    ELSE LET branch ==
               IF ~X.isNone THEN {use_new_data(o, X.v, ex)}
               ELSE IF sampling_fn /\ ~samples_present(o) THEN sample(o, ex)
               ELSE {Out(o, "none")}
         IN UNION { IF r.err # "none" THEN {r} ELSE condense(r.o, filter)
                    : r \in branch }

---------------------------------------------------------------------------
(* Optimizer.cache_factors *)

\* np.where(self.y_train == strategy_idx)[0]
idx_param(o, strategy_idx) ==
    IF o.y_train.isNone \/ o.X_train.isNone THEN {}
    ELSE { i \in 1..Len(o.y_train.v) :
             o.y_train.v[i] = strategy_idx /\ i <= Len(o.X_train.v) }

\* theta = self.X_train.iloc[idx_param[0]]
representative(o, strategy_idx) ==
    o.X_train.v[Min(idx_param(o, strategy_idx))]

\* the cache entry of one strategy: factors of the KKT matrix of the
\* problem reduced by this strategy
cache_entry(o, strategy_idx) ==
    [strategy |-> o.encoding.v[strategy_idx + 1]]

cache_factors(o) ==
    LET o0 == [o EXCEPT !.solver_cache = Some(<<>>)]
    IN IF o.encoding.isNone
       THEN {Out(o0, "ValueError: not trained")}
       ELSE
       LET n == Len(o.encoding.v)
           noRep == { i \in 0..(n - 1) : idx_param(o, i) = {} }
           m == IF noRep = {} THEN n ELSE Min(noRep)
           built(j) == IF j = 0 THEN <<>>
                      ELSE [i \in 1..j |-> cache_entry(o, i - 1)]
           \* state when the loop stops before index j
           stopped(j) ==
               IF j = 0 THEN o0
               ELSE [o EXCEPT !.solver_cache = Some(built(j)),
                              !.theta = representative(o, j - 1),
                              !.disc_relaxed = FALSE]
       IN \* factorized(KKT_mat) raises for strategy f
          { Out([o EXCEPT !.solver_cache = Some(built(f)),
                          !.theta = representative(o, f),
                          !.disc_relaxed = TRUE],
                "RuntimeError: factorization") : f \in 0..(m - 1) }
          \cup
          { Out(stopped(m),
                IF m = n THEN "none" ELSE "IndexError: no sample") }

---------------------------------------------------------------------------
(* Optimizer.train *)

\* LEARNER_MAP[learner](n_input, n_classes, **learner_options): the learner
\* keeps its options; it cannot rank more classes than it has
LEARNER(n_best, n_classes) ==
    [isNone |-> FALSE,
     n_best |-> IF n_best < n_classes THEN n_best ELSE n_classes,
     n_classes |-> n_classes]

train(o, X, sampling_fn, filter, n_best, qp, ex) ==
    UNION {
      IF r.err # "none" THEN {r}
      ELSE LET o1 == [r.o EXCEPT !.learner =
                        LEARNER(n_best, Len(r.o.encoding.v))]
           IN IF qp THEN cache_factors(o1) ELSE {Out(o1, "none")}
      : r \in get_samples(o, X, sampling_fn, filter, ex) }

---------------------------------------------------------------------------
(* The last call *)

\* which of X and sampling_fn a call was given
given(X, sampling_fn) ==
    IF ~X.isNone /\ sampling_fn THEN "both"
    ELSE IF ~X.isNone THEN "X"
    ELSE IF sampling_fn THEN "sampling_fn"
    ELSE "neither"

\* op: the method called; err: the exception it raised, "none" if it
\* returned; given: its data arguments; was_present: samples_present()
\* when it was called
NoCall ==
    [op |-> "init", err |-> "none", given |-> "", was_present |-> FALSE]

Called(op, err, args, o) ==
    [op |-> op, err |-> err, given |-> args, was_present |-> samples_present(o)]

---------------------------------------------------------------------------
(* Specification of the training life cycle *)

Init ==
    /\ X_train = None /\ y_train = None /\ encoding = None
    /\ obj_train = None /\ encoding_full = None /\ y_train_full = None
    /\ solver_cache = None /\ learner = NoLearner /\ sampler = NoSampler
    /\ theta = NoTheta /\ disc_relaxed = FALSE
    /\ is_qp \in BOOLEAN
    /\ exact \in ExactSolvers
    /\ last = NoCall

Train ==
    \E X \in XArgs, sampling_fn \in BOOLEAN, filter \in BOOLEAN,
       n_best \in 1..MaxNBest :
      \E r \in train(Self, X, sampling_fn, filter, n_best, is_qp, exact) :
        /\ Commit(r.o)
        /\ last' = Called("train", r.err, given(X, sampling_fn), Self)
        /\ UNCHANGED <<is_qp, exact>>

GetSamples ==
    \E X \in XArgs, sampling_fn \in BOOLEAN, filter \in BOOLEAN :
      \E r \in get_samples(Self, X, sampling_fn, filter, exact) :
        /\ Commit(r.o)
        /\ last' = Called("get_samples", r.err, given(X, sampling_fn), Self)
        /\ UNCHANGED <<is_qp, exact>>

FilterStrategies ==
    \E k \in 1..NumStrategies :
      \E r \in filter_strategies(Self, k) :
        /\ Commit(r.o)
        /\ last' = Called("filter_strategies", r.err, "", Self)
        /\ UNCHANGED <<is_qp, exact>>

CacheFactors ==
    \E r \in cache_factors(Self) :
      /\ Commit(r.o)
      /\ last' = Called("cache_factors", r.err, "", Self)
      /\ UNCHANGED <<is_qp, exact>>

Next == Train \/ GetSamples \/ FilterStrategies \/ CacheFactors

Spec == Init /\ [][Next]_vars

---------------------------------------------------------------------------
(* mlopt.problem.solve_with_strategy(problem, strategy, cache): the solve  *)
(* of the problem reduced by one strategy.  It returns x, time,            *)
(* infeasibility and cost; a solve that fails returns the sentinel         *)
(* infeasibility, which is larger than that of any solve that succeeds.    *)

INFEAS_SENTINEL == 3
TimeVals == {1, 2}
CostVals == {1, 2}
InfeasVals == 0..INFEAS_SENTINEL
CandidateResults ==
    [time : TimeVals, infeasibility : InfeasVals, cost : CostVals]

failed(res) == res.infeasibility = INFEAS_SENTINEL

---------------------------------------------------------------------------
(* Optimizer.choose_best *)

\* "self._solver_cache and use_cache": an empty list is false in Python
cache_in_use(o, use_cache) ==
    (~o.solver_cache.isNone) /\ o.solver_cache.v # <<>> /\ use_cache

\* a cache entry, or None, as one candidate's cache
NoEntry == [strategy |-> NoStrategy]

\* strategies = [self.encoding[l] for l in labels]
strategies_of(o, labels) ==
    [j \in 1..Len(labels) |-> o.encoding.v[labels[j] + 1]]

\* cache = [None] * n_best, or [self._solver_cache[l] for l in labels]
cache_list(o, labels, use_cache) ==
    IF cache_in_use(o, use_cache)
    THEN [j \in 1..Len(labels) |-> o.solver_cache.v[labels[j] + 1]]
    ELSE [j \in 1..o.learner.n_best |-> NoEntry]

\* the exception raised while strategies and cache are built
setup_error(o, labels, use_cache) ==
    IF o.learner.isNone THEN "AttributeError: no learner"
    ELSE IF o.encoding.isNone THEN "TypeError: no encoding"
    ELSE IF \E j \in 1..Len(labels) : labels[j] >= Len(o.encoding.v)
    THEN "IndexError: label"
    ELSE IF cache_in_use(o, use_cache) /\
            \E j \in 1..Len(labels) : labels[j] >= Len(o.solver_cache.v)
    THEN "IndexError: cache"
    ELSE "none"

\* the third argument of the parallel branch's calls: the whole list
parallel_cache_arg(cache, j) == [whole |-> TRUE, v |-> cache]
\* the third argument of the sequential branch's calls: cache[j]
sequential_cache_arg(cache, j) == [whole |-> FALSE, v |-> <<cache[j]>>]

\* the solve_with_strategy calls of the parallel branch: one per strategy
parallel_calls(o, labels, use_cache) ==
    LET strategies == strategies_of(o, labels)
        cache == cache_list(o, labels, use_cache)
    IN [j \in 1..Len(labels) |->
          [strategy |-> strategies[j], cache |-> parallel_cache_arg(cache, j)]]

\* the solve_with_strategy calls of the sequential branch: j in range(n_best),
\* up to the first j that strategies or cache do not have
sequential_calls(o, labels, use_cache) ==
    LET strategies == strategies_of(o, labels)
        cache == cache_list(o, labels, use_cache)
        n == IF o.learner.n_best < Len(labels) THEN o.learner.n_best
             ELSE Len(labels)
    IN [j \in 1..n |->
          [strategy |-> strategies[j],
           cache |-> sequential_cache_arg(cache, j)]]

solve_calls(o, labels, parallel, use_cache) ==
    IF parallel THEN parallel_calls(o, labels, use_cache)
    ELSE sequential_calls(o, labels, use_cache)

\* the exception raised by the candidate loop
loop_error(o, labels, parallel) ==
    IF ~parallel /\ Len(labels) < o.learner.n_best
    THEN "IndexError: list index out of range"
    ELSE "none"

\* first index of the minimum of vals over idxs (np.argmin), 1-based
first_argmin(vals, idxs) ==
    Min({ i \in idxs : \A j \in idxs : vals[i] <= vals[j] })

\* (variant: every candidate counts as feasible)
idx_filter_all(infeas) == 1..Len(infeas)

\* np.where(infeas <= INFEAS_TOL)[0], 1-based
idx_filter(infeas) == { i \in 1..Len(infeas) : infeas[i] <= INFEAS_TOL }

\* (variant: minimum cost over all candidates, feasible or not)
idx_pick_min_cost(infeas, cost) ==
    first_argmin(cost, 1..Len(cost)) - 1

\* (variant: without feasible candidates, the last minimum of infeasibility)
idx_pick_last_min(infeas, cost) ==
    IF idx_filter(infeas) # {}
    THEN first_argmin(cost, idx_filter(infeas)) - 1
    ELSE (CHOOSE i \in 1..Len(infeas) :
            /\ \A j \in 1..Len(infeas) : infeas[i] <= infeas[j]
            /\ \A j \in 1..Len(infeas) : infeas[j] = infeas[i] => j <= i) - 1

\* "Pick best class between k ones", 0-based as in the code
idx_pick(infeas, cost) ==
    IF idx_filter(infeas) # {}
    THEN first_argmin(cost, idx_filter(infeas)) - 1
    ELSE first_argmin(infeas, 1..Len(infeas)) - 1

\* (variant: the longest solve, as if the solves ran side by side)
total_time_max(time) ==
    CHOOSE t \in Range(time) : \A u \in Range(time) : u <= t

\* result['time'] = np.sum(time)
total_time(time) == Sum(time)

NoResult ==
    [x |-> 0, time |-> 0, strategy |-> NoStrategy, cost |-> 0,
     infeasibility |-> 0]

\* the outcome of choose_best: res are the results of its solve calls.
\* x is named by the rank of the candidate that produced it.
choose_best(o, labels, parallel, use_cache, res) ==
    LET calls == solve_calls(o, labels, parallel, use_cache)
        infeas == [j \in 1..Len(res) |-> res[j].infeasibility]
        cost == [j \in 1..Len(res) |-> res[j].cost]
        time == [j \in 1..Len(res) |-> res[j].time]
        pick == idx_pick(infeas, cost)
    IN IF loop_error(o, labels, parallel) # "none"
       THEN [err |-> loop_error(o, labels, parallel), stage |-> "solve",
             calls |-> calls, res |-> res, result |-> NoResult]
       ELSE IF Len(res) = 0
       THEN [err |-> "ValueError: argmin of an empty sequence",
             stage |-> "select", calls |-> calls, res |-> res,
             result |-> NoResult]
       ELSE [err |-> "none", stage |-> "return", calls |-> calls, res |-> res,
             result |-> [x |-> pick,
                         time |-> total_time(time),
                         strategy |-> calls[pick + 1].strategy,
                         cost |-> cost[pick + 1],
                         infeasibility |-> infeas[pick + 1]]]

\* every outcome of choose_best over the results the solves can return
choose_best_outcomes(o, labels, parallel, use_cache) ==
    IF setup_error(o, labels, use_cache) # "none"
    THEN { [err |-> setup_error(o, labels, use_cache), stage |-> "setup",
            calls |-> <<>>, res |-> <<>>, result |-> NoResult] }
    ELSE { choose_best(o, labels, parallel, use_cache, res) :
             res \in [1..Len(solve_calls(o, labels, parallel, use_cache))
                        -> CandidateResults] }

---------------------------------------------------------------------------
(* Specification of serving: a trained optimizer answers choose_best       *)

\* the exact solver of the served problem: every parameter is solvable
ServeExact == [t \in Thetas |-> ((t - 1) % NumStrategies) + 1]
ServeX == [i \in 1..MaxPoints |-> i]

\* the optimizers train(X) returns, on a fresh optimizer or on one whose
\* cache_factors() was called before training
TrainedOptimizers(qp) ==
    { r.o : r \in { t \in UNION { train(o0, Some(ServeX), FALSE, FALSE, n_best,
                                          qp, ServeExact)
                                    : o0 \in {NewOptimizer} \cup
                                             { c.o : c \in cache_factors(NewOptimizer) },
                                      n_best \in 1..MaxNBest }
                      : t.err = "none" } }

\* ranked labels: distinct classes, best first
RankedLabels(n_classes) ==
    UNION { { l \in [1..n -> 0..(n_classes - 1)] :
                \A i, j \in 1..n : i # j => l[i] # l[j] }
            : n \in 0..MaxNBest }

\* the call being served.  choose_best: labels, parallel, use_cache, its
\* solve calls and their results res, and the result returned.  solve: the
\* points X, use_cache, the results list, per point the results of its
\* candidates' solve calls and their results (point_calls, point_res), the
\* prediction time, and whether a list was returned.  stage is the position of the call.
ServeCall ==
    [op |-> "init", err |-> "none", stage |-> "", labels |-> <<>>,
     parallel |-> FALSE, use_cache |-> FALSE, calls |-> <<>>, res |-> <<>>,
     result |-> NoResult, X |-> <<>>, results |-> <<>>, point_calls |-> <<>>,
     point_res |-> <<>>, pred_time |-> 0, returned_list |-> FALSE]

InitServe ==
    /\ is_qp \in BOOLEAN
    /\ exact = ServeExact
    /\ \E o \in TrainedOptimizers(is_qp) :
         /\ X_train = o.X_train /\ y_train = o.y_train
         /\ encoding = o.encoding /\ obj_train = o.obj_train
         /\ encoding_full = o.encoding_full /\ y_train_full = o.y_train_full
         /\ solver_cache = o.solver_cache /\ learner = o.learner
         /\ sampler = o.sampler /\ theta = o.theta
         /\ disc_relaxed = o.disc_relaxed
    /\ last = ServeCall

\* A request leaves the trained optimizer as it found it, so a behaviour
\* serves one request: a second one would see what the first saw.
Idle == last.op = "init"

ChooseBest ==
    /\ Idle
    /\ \E labels \in RankedLabels(Len(encoding.v)), parallel \in BOOLEAN,
          use_cache \in BOOLEAN :
        \E c \in choose_best_outcomes(Self, labels, parallel, use_cache) :
        /\ last' = [ServeCall EXCEPT
                      !.op = "choose_best", !.err = c.err, !.stage = c.stage,
                      !.labels = labels, !.parallel = parallel,
                      !.use_cache = use_cache, !.calls = c.calls,
                      !.res = c.res, !.result = c.result]
        /\ UNCHANGED <<X_train, y_train, encoding, obj_train, encoding_full,
                       y_train_full, solver_cache, learner, sampler, theta,
                       disc_relaxed, is_qp, exact>>

---------------------------------------------------------------------------
(* Optimizer.solve, one step per statement group: the checks before the    *)
(* loop, one loop iteration per point, the closing loops and the return    *)

\* test inputs: the points of X, a point is its id
TestInputs == { [i \in 1..n |-> i] : n \in 1..MaxPoints }

\* t_predict = (time() - t_start) / n_points
PredTimeVals == {1}

\* what the candidates' solves return while a batch is solved: a feasible
\* cheap one, an infeasible one and a failed one
BatchCandidateResults ==
    { [time |-> 1, infeasibility |-> 0, cost |-> 1],
      [time |-> 2, infeasibility |-> 2, cost |-> 2],
      [time |-> 1, infeasibility |-> INFEAS_SENTINEL, cost |-> 2] }

\* classes[i, :] of self._learner.predict(X): the trained learner is a
\* function of the point and ranks n_best distinct labels for it
predict(lrn, point) ==
    [j \in 1..lrn.n_best |-> (point + j - 2) % lrn.n_classes]

\* (variant: "self._solver_cache is None", which an empty list passes)
cache_missing_none_only(o, use_cache) ==
    use_cache /\ o.solver_cache.isNone

\* "if use_cache and not self._solver_cache"
cache_missing(o, use_cache) ==
    use_cache /\ (o.solver_cache.isNone \/ o.solver_cache.v = <<>>)

\* the closing loop: pred_time, solve_time and time of one result
with_pred_time(r, t_predict) ==
    [x |-> r.x, strategy |-> r.strategy, cost |-> r.cost,
     infeasibility |-> r.infeasibility,
     pred_time |-> t_predict, solve_time |-> r.time,
     time |-> t_predict + r.time]

\* "if len(results) == 1: results = results[0]": is a list returned
returns_list(results) == Len(results) # 1

SolveStart ==
    /\ Idle
    /\ \E X \in TestInputs, use_cache \in BOOLEAN, t_predict \in PredTimeVals :
         last' = IF cache_missing(Self, use_cache)
                 THEN [ServeCall EXCEPT
                         !.op = "solve", !.stage = "raised", !.X = X,
                         !.use_cache = use_cache,
                         !.err = "ValueError: solver cache requested"]
                 ELSE [ServeCall EXCEPT
                         !.op = "solve", !.stage = "loop", !.X = X,
                         !.use_cache = use_cache, !.pred_time = t_predict]
    /\ UNCHANGED <<X_train, y_train, encoding, obj_train, encoding_full,
                   y_train_full, solver_cache, learner, sampler, theta,
                   disc_relaxed, is_qp, exact>>

SolvePoint ==
    /\ last.op = "solve" /\ last.stage = "loop"
    /\ Len(last.results) < Len(last.X)
    /\ LET i == Len(last.results) + 1
       IN /\ theta' = last.X[i]
          /\ \E labels \in {predict(learner, last.X[i])} :
             \E res \in [1..Len(solve_calls(Self, labels, FALSE,
                                             last.use_cache))
                          -> BatchCandidateResults] :
               LET c == IF setup_error(Self, labels, last.use_cache) # "none"
                        THEN [err |-> setup_error(Self, labels,
                                                  last.use_cache),
                              calls |-> <<>>, result |-> NoResult]
                        ELSE choose_best(Self, labels, FALSE, last.use_cache,
                                         res)
               IN last' = IF c.err # "none"
                          THEN [last EXCEPT !.stage = "raised",
                                            !.err = c.err]
                          ELSE [last EXCEPT
                                  !.results = Append(@, c.result),
                                  !.point_calls = Append(@, c.calls),
                                  !.point_res = Append(@, res)]
    /\ UNCHANGED <<X_train, y_train, encoding, obj_train, encoding_full,
                   y_train_full, solver_cache, learner, sampler,
                   disc_relaxed, is_qp, exact>>

SolveReturn ==
    /\ last.op = "solve" /\ last.stage = "loop"
    /\ Len(last.results) = Len(last.X)
    /\ last' = [last EXCEPT
                  !.stage = "return",
                  !.results = [i \in 1..Len(last.results) |->
                                 with_pred_time(last.results[i],
                                                last.pred_time)],
                  !.returned_list = returns_list(last.results)]
    /\ UNCHANGED <<X_train, y_train, encoding, obj_train, encoding_full,
                   y_train_full, solver_cache, learner, sampler, theta,
                   disc_relaxed, is_qp, exact>>

NextServe == ChooseBest \/ SolveStart \/ SolvePoint \/ SolveReturn

SpecServe == InitServe /\ [][NextServe]_vars

---------------------------------------------------------------------------
(* Properties of choose_best and solve, checked under SpecServe *)

\* choose_best returned a result
ChooseBestReturned == last.op = "choose_best" /\ last.err = "none"

\* the candidates of the last choose_best within the tolerance
FeasibleCandidates ==
    { j \in 1..Len(last.res) : last.res[j].infeasibility <= INFEAS_TOL }

\* the result is candidate p's
ResultIsCandidate(p) ==
    /\ last.result.x = p - 1
    /\ last.result.cost = last.res[p].cost
    /\ last.result.infeasibility = last.res[p].infeasibility
    /\ last.result.strategy = last.calls[p].strategy

\* C1: when some evaluated candidate has infeasibility <= INFEAS_TOL,
\* choose_best returns the feasible candidate of minimum cost, the one of
\* lowest rank among equals; an infeasible candidate is never returned,
\* whatever its cost.
C1_FeasibleMinCost ==
    (ChooseBestReturned /\ FeasibleCandidates # {}) =>
       \E p \in FeasibleCandidates :
          /\ ResultIsCandidate(p)
          /\ \A j \in FeasibleCandidates :
                /\ last.res[p].cost <= last.res[j].cost
                /\ last.res[j].cost = last.res[p].cost => p <= j

\* a sole feasible candidate, second in rank and dearer than the infeasible
\* first one, is returned
C1_Witness ==
    /\ ChooseBestReturned
    /\ Len(last.res) = 2
    /\ FeasibleCandidates = {2}
    /\ last.res[1].cost < last.res[2].cost
    /\ last.result.x = 1

\* C2: when no evaluated candidate has infeasibility <= INFEAS_TOL,
\* choose_best returns the candidate of minimum infeasibility, the one of
\* lowest rank among equals.
C2_InfeasibleMinInfeasibility ==
    (ChooseBestReturned /\ FeasibleCandidates = {}) =>
       \E p \in 1..Len(last.res) :
          /\ ResultIsCandidate(p)
          /\ \A j \in 1..Len(last.res) :
                /\ last.res[p].infeasibility <= last.res[j].infeasibility
                /\ last.res[j].infeasibility = last.res[p].infeasibility
                      => p <= j

\* two infeasible candidates tie on infeasibility and the first is returned,
\* although the second is cheaper
C2_Witness ==
    /\ ChooseBestReturned
    /\ Len(last.res) = 2
    /\ FeasibleCandidates = {}
    /\ last.res[1].infeasibility = last.res[2].infeasibility
    /\ last.res[2].cost < last.res[1].cost
    /\ last.result.x = 0

\* C3: the time choose_best reports is the sum of the solve times of all
\* the candidates it evaluated, for every n_best >= 1; solve keeps that sum
\* as solve_time and reports time = pred_time + solve_time.
C3_TimeIsSumOfCandidates ==
    /\ ChooseBestReturned =>
          last.result.time =
             Sum([j \in 1..Len(last.res) |-> last.res[j].time])
    /\ (last.op = "solve" /\ last.stage = "return") =>
          \A i \in 1..Len(last.results) :
             /\ last.results[i].solve_time =
                   Sum([j \in 1..Len(last.point_res[i]) |->
                          last.point_res[i][j].time])
             /\ last.results[i].time =
                   last.pred_time + last.results[i].solve_time

\* two candidates with different times: the winner is the faster one and
\* the reported time counts both
C3_Witness ==
    /\ ChooseBestReturned
    /\ Len(last.res) = 2
    /\ last.res[1].time = 1 /\ last.res[2].time = 2
    /\ last.result.x = 0
    /\ last.result.time = 3

\* C4: for the same labels and cache setting, the parallel and the sequential
\* branch of choose_best make the same solve calls, each candidate with its
\* own cache entry, and return the same result.
C4_ParallelSameAsSequential ==
    (last.op = "choose_best" /\ last.stage # "setup"
       /\ Len(last.labels) = learner.n_best) =>
       /\ parallel_calls(Self, last.labels, last.use_cache) =
             sequential_calls(Self, last.labels, last.use_cache)
       /\ choose_best(Self, last.labels, TRUE, last.use_cache,
                      last.res).result =
             choose_best(Self, last.labels, FALSE, last.use_cache,
                         last.res).result

C6_EmptyLabelsNoCandidatesError ==
    (last.op = "choose_best" /\ last.labels = <<>>) =>
       /\ last.err = "NoCandidatesError"
       /\ last.stage = "setup"

\* the optimizer has no usable cache: never built, or built empty
CacheUnusable == solver_cache.isNone \/ solver_cache.v = <<>>

\* C7 as claimed: without a usable cache, solve does not fail.
C7_SolveNeverFailsWithoutCache ==
    (last.op = "solve" /\ CacheUnusable) => last.err = "none"

\* C7 as amended: without a usable cache, solve(use_cache=False) solves
\* every candidate of every point uncached and returns; solve(use_cache=True),
\* the default, raises ValueError before any candidate is solved.
C7_SolveWithoutCache ==
    (last.op = "solve" /\ CacheUnusable) =>
       /\ last.use_cache =>
             /\ last.stage = "raised"
             /\ last.err = "ValueError: solver cache requested"
             /\ last.results = <<>> /\ last.point_calls = <<>>
       /\ ~last.use_cache =>
             /\ last.err = "none"
             /\ \A i \in 1..Len(last.point_calls) :
                   /\ Len(last.point_calls[i]) = learner.n_best
                   /\ \A j \in 1..Len(last.point_calls[i]) :
                         last.point_calls[i][j].cache =
                            [whole |-> FALSE, v |-> <<NoEntry>>]
             /\ last.stage = "return" =>
                   Len(last.results) = Len(last.X)

\* a cache built empty, use_cache=False: both points are answered
C7_Witness ==
    /\ last.op = "solve" /\ last.stage = "return"
    /\ ~solver_cache.isNone /\ solver_cache.v = <<>>
    /\ ~last.use_cache
    /\ Len(last.results) = 2

---------------------------------------------------------------------------
(* Properties of the training life cycle, checked under Spec *)

\* the two errors of the argument check
ArgErrors == {"ValueError: not enough arguments",
              "ValueError: only one of X and sampling_fn"}

HasInfeasiblePoint(X) == \E i \in 1..Len(X) : exact[X[i]] = NoStrategy

\* C9: if a point of X yields no strategy, get_samples(X) raises and builds
\* neither labels nor encoding: y_train and encoding are unset afterwards and
\* samples_present() is false, whatever was there before.
C9_InfeasiblePointAborts ==
    /\ (last.op \in {"get_samples", "train"}
          /\ last.err = "ValueError: infeasible points") =>
          /\ y_train = None /\ encoding = None
          /\ ~samples_present(Self)
    /\ \A X \in TrainInputs, filter \in BOOLEAN :
          HasInfeasiblePoint(X) =>
             \A r \in get_samples(Self, Some(X), FALSE, filter, exact) :
                /\ r.err = "ValueError: infeasible points"
                /\ r.o.y_train = None /\ r.o.encoding = None
                /\ ~samples_present(r.o)

\* get_samples(X) raised for an infeasible second point although samples of
\* an earlier call were present
C9_Witness ==
    /\ last.op = "get_samples" /\ last.given = "X"
    /\ last.err = "ValueError: infeasible points"
    /\ last.was_present
    /\ ~X_train.isNone /\ Len(X_train.v) = 2
    /\ exact[X_train.v[1]] # NoStrategy /\ exact[X_train.v[2]] = NoStrategy
    /\ y_train = None /\ encoding = None

\* o holds at most k strategies, labels that are ids into them, and one
\* label for each point of X_train
WithinBudget(o, k) ==
    /\ ~o.encoding.isNone /\ ~o.y_train.isNone /\ ~o.X_train.isNone
    /\ Len(o.encoding.v) <= k
    /\ \A i \in 1..Len(o.y_train.v) :
          o.y_train.v[i] \in 0..(Len(o.encoding.v) - 1)
    /\ Len(o.y_train.v) = Len(o.X_train.v)

\* C10: when filter_strategies(k) returns, the encoding has at most k
\* entries, every label of y_train is an id into it and y_train has one
\* label for each point of X_train; when get_samples with
\* filter_strategies=True returns, the encoding has at most
\* K_MAX_STRATEGIES entries.
C10_FilterWithinBudget ==
    /\ \A k \in 1..NumStrategies :
          \A r \in filter_strategies(Self, k) :
             r.err = "none" => WithinBudget(r.o, k)
    /\ \A X \in XArgs, sampling_fn \in BOOLEAN :
          \A r \in get_samples(Self, X, sampling_fn, TRUE, exact) :
             r.err = "none" => WithinBudget(r.o, K_MAX_STRATEGIES)

\* get_samples(X) found more strategies than K_MAX_STRATEGIES, kept them in
\* encoding_full and returned with a filtered encoding
C10_Witness ==
    /\ last.op = "get_samples" /\ last.given = "X" /\ last.err = "none"
    /\ Len(unique_strategies([i \in 1..Len(X_train.v) |->
                                 exact[X_train.v[i]]])) > K_MAX_STRATEGIES
    /\ ~encoding_full.isNone /\ Len(encoding_full.v) > K_MAX_STRATEGIES
    /\ WithinBudget(Self, K_MAX_STRATEGIES)

\* C11: solve returns a list of results with exactly one entry per input
\* point, in input order, for every number of points n >= 1, n = 1 included.
C11_SolveReturnsListPerPoint ==
    (last.op = "solve" /\ last.stage = "return") =>
       /\ last.returned_list
       /\ Len(last.results) = Len(last.X)
       /\ \A i \in 1..Len(last.results) :
             last.results[i].strategy \in
                { c.strategy : c \in Range(last.point_calls[i]) }

---------------------------------------------------------------------------
(* Specification of concurrent serving: solve invocations that share one   *)
(* trained optimizer, hence its problem object and its cache.  The loop of *)
(* solve takes two steps per point, populate and choose_best, and the      *)
(* steps of the invocations interleave.                                    *)

Invocations == {"a", "b"}

\* solve_with_strategy(self._problem, strategy, cache): solves the problem
\* for the parameter it is populated with; the strategy of that parameter
\* gives a feasible solution, another one does not
solve_with_strategy(populated, strategy) ==
    [time |-> 1,
     infeasibility |-> IF exact[populated] = strategy THEN 0 ELSE 2,
     cost |-> populated]

\* choose_best(classes[i, :], use_cache=use_cache) while the problem holds
\* the parameter o.theta
choose_best_populated(o, labels, use_cache) ==
    LET calls == solve_calls(o, labels, FALSE, use_cache)
    IN IF setup_error(o, labels, use_cache) # "none"
       THEN [err |-> setup_error(o, labels, use_cache), result |-> NoResult]
       ELSE choose_best(o, labels, FALSE, use_cache,
                        [j \in 1..Len(calls) |->
                           solve_with_strategy(o.theta, calls[j].strategy)])

\* an invocation: its points X, its position pc, its results so far and,
\* for each result, the parameter the problem held when it was computed
NoInvocation ==
    [pc |-> "idle", X |-> <<>>, use_cache |-> FALSE, results |-> <<>>,
     populated |-> <<>>, pred_time |-> 0, err |-> "none"]

InitConcurrent ==
    /\ is_qp \in BOOLEAN
    /\ exact = ServeExact
    /\ \E o \in TrainedOptimizers(is_qp) :
         /\ X_train = o.X_train /\ y_train = o.y_train
         /\ encoding = o.encoding /\ obj_train = o.obj_train
         /\ encoding_full = o.encoding_full /\ y_train_full = o.y_train_full
         /\ solver_cache = o.solver_cache /\ learner = o.learner
         /\ sampler = o.sampler /\ theta = o.theta
         /\ disc_relaxed = o.disc_relaxed
    /\ last = [op |-> "concurrent", inv |-> [p \in Invocations |-> NoInvocation]]

\* solve up to the loop: the cache check and predict
ConcurrentStart ==
    /\ \E p \in Invocations, X \in TestInputs, use_cache \in BOOLEAN,
          t_predict \in PredTimeVals :
         /\ last.inv[p].pc = "idle"
         /\ last' = [last EXCEPT !.inv[p] =
                       IF cache_missing(Self, use_cache)
                       THEN [@ EXCEPT !.pc = "raised", !.X = X,
                                      !.use_cache = use_cache,
                                      !.err = "ValueError: solver cache requested"]
                       ELSE [@ EXCEPT !.pc = "populate", !.X = X,
                                      !.use_cache = use_cache,
                                      !.pred_time = t_predict]]
    /\ UNCHANGED <<X_train, y_train, encoding, obj_train, encoding_full,
                   y_train_full, solver_cache, learner, sampler, theta,
                   disc_relaxed, is_qp, exact>>

\* self._problem.populate(X.iloc[i])
ConcurrentPopulate ==
    /\ \E p \in Invocations :
         /\ last.inv[p].pc = "populate"
         /\ Len(last.inv[p].results) < Len(last.inv[p].X)
         /\ theta' = last.inv[p].X[Len(last.inv[p].results) + 1]
         /\ last' = [last EXCEPT !.inv[p].pc = "choose_best"]
    /\ UNCHANGED <<X_train, y_train, encoding, obj_train, encoding_full,
                   y_train_full, solver_cache, learner, sampler,
                   disc_relaxed, is_qp, exact>>

\* results.append(self.choose_best(classes[i, :], use_cache=use_cache))
ConcurrentChooseBest ==
    /\ \E p \in Invocations :
         /\ last.inv[p].pc = "choose_best"
         /\ LET me == last.inv[p]
                point == me.X[Len(me.results) + 1]
                c == choose_best_populated(Self, predict(learner, point),
                                           me.use_cache)
            IN last' = [last EXCEPT !.inv[p] =
                          IF c.err # "none"
                          THEN [@ EXCEPT !.pc = "raised", !.err = c.err]
                          ELSE [@ EXCEPT !.pc = "populate",
                                         !.results = Append(@, c.result),
                                         !.populated = Append(@, theta)]]
    /\ UNCHANGED <<X_train, y_train, encoding, obj_train, encoding_full,
                   y_train_full, solver_cache, learner, sampler, theta,
                   disc_relaxed, is_qp, exact>>

\* the closing loops and the return
ConcurrentReturn ==
    /\ \E p \in Invocations :
         /\ last.inv[p].pc = "populate"
         /\ Len(last.inv[p].results) = Len(last.inv[p].X)
         /\ last' = [last EXCEPT !.inv[p] =
                       [@ EXCEPT !.pc = "return",
                                 !.results =
                                    [i \in 1..Len(last.inv[p].results) |->
                                       with_pred_time(last.inv[p].results[i],
                                                      last.inv[p].pred_time)]]]
    /\ UNCHANGED <<X_train, y_train, encoding, obj_train, encoding_full,
                   y_train_full, solver_cache, learner, sampler, theta,
                   disc_relaxed, is_qp, exact>>

NextConcurrent ==
    \/ ConcurrentStart \/ ConcurrentPopulate
    \/ ConcurrentChooseBest \/ ConcurrentReturn

SpecConcurrent == InitConcurrent /\ [][NextConcurrent]_vars

\* what solve computes for one point when nothing else runs: the problem
\* populated with that point
result_of_point(o, point, use_cache) ==
    choose_best_populated([o EXCEPT !.theta = point],
                          predict(o.learner, point), use_cache).result

\* C12: in concurrent solve invocations on one optimizer, every result of an
\* invocation is computed with the problem populated by that invocation's
\* own point, under every interleaving of populate and choose_best.
C12_ConcurrentSolveOwnParameters ==
    \A p \in Invocations :
       \A i \in 1..Len(last.inv[p].populated) :
          /\ last.inv[p].populated[i] = last.inv[p].X[i]
          /\ last.inv[p].pc # "return" =>
                last.inv[p].results[i] =
                   result_of_point(Self, last.inv[p].X[i],
                                   last.inv[p].use_cache)

---------------------------------------------------------------------------
(* mlopt.utils.suboptimality and mlopt.utils.accuracy.  Costs are nonzero  *)
(* integers, so the 1e-10 in the denominator of suboptimality changes no   *)
(* comparison; fractions are kept exact as numerator and denominator.      *)

\* SUBOPT_TOL (mlopt.settings), in the model's units
SUBOPT_TOL == 1

Abs(x) == IF x < 0 THEN -x ELSE x

\* the fraction n/d, d > 0
Rat(n, d) == [num |-> n, den |-> d]
RatLeq(a, b) == a.num * b.den <= b.num * a.den
RatEq(a, b) == a.num * b.den = b.num * a.den

\* (cost_pred - cost_test)/(np.abs(cost_test) + 1e-10)
suboptimality(cost_pred, cost_test) ==
    Rat(cost_pred - cost_test, Abs(cost_test))

\* (variant: a different strategy is correct whenever its cost is close,
\* feasible or not)
accuracy_ignoring_feasibility(results_pred, results_test) ==
    LET n_points == Len(results_pred)
        idx_correct ==
          [i \in 1..n_points |->
             IF results_pred[i].strategy = results_test[i].strategy THEN 1
             ELSE IF RatLeq(suboptimality(results_pred[i].cost,
                                          results_test[i].cost),
                            Rat(SUBOPT_TOL, 1))
                  THEN 1 ELSE 0]
    IN [accuracy |-> Rat(Sum(idx_correct), n_points),
        idx_correct |-> idx_correct]

\* accuracy(results_pred, results_test): the fraction of correct points and
\* the vector of the points that are correct
accuracy(results_pred, results_test) ==
    LET n_points == Len(results_pred)
        idx_correct ==
          [i \in 1..n_points |->
             IF results_pred[i].strategy = results_test[i].strategy THEN 1
             ELSE IF results_pred[i].infeasibility <= INFEAS_TOL
                  THEN IF RatLeq(suboptimality(results_pred[i].cost,
                                               results_test[i].cost),
                                 Rat(SUBOPT_TOL, 1))
                       THEN 1 ELSE 0
                  ELSE 0]
    IN [accuracy |-> Rat(Sum(idx_correct), n_points),
        idx_correct |-> idx_correct]

---------------------------------------------------------------------------
(* Optimizer.performance: the statistics of a test set.  A standard        *)
(* deviation is kept as its square.                                        *)

RatAdd(a, b) == Rat(a.num * b.den + b.num * a.den, a.den * b.den)
RatSub(a, b) == Rat(a.num * b.den - b.num * a.den, a.den * b.den)
RatMul(a, b) == Rat(a.num * b.num, a.den * b.den)

RECURSIVE RatSum(_)
RatSum(s) == IF s = <<>> THEN Rat(0, 1) ELSE RatAdd(s[1], RatSum(Tail(s)))

\* numpy's nan, the mean of an empty array
NaN == Rat(0, 0)
IsNaN(r) == r.den = 0

\* np.mean and the square of np.std of a sequence of fractions
np_mean(s) ==
    IF s = <<>> THEN NaN
    ELSE Rat(RatSum(s).num, RatSum(s).den * Len(s))

np_std_squared(s) ==
    IF s = <<>> THEN NaN
    ELSE RatSub(np_mean([i \in 1..Len(s) |-> RatMul(s[i], s[i])]),
                RatMul(np_mean(s), np_mean(s)))

\* vals[idxs] for an index array in increasing order
take(vals, idxs) ==
    LET ids == SelectSeq([i \in 1..Len(vals) |-> i], LAMBDA i : i \in idxs)
    IN [j \in 1..Len(ids) |-> vals[ids[j]]]

NoStats ==
    [n_test |-> 0, good_turing |-> NoSampler, n_correct |-> 0,
     accuracy |-> NaN, n_infeas |-> 0, avg_infeas |-> NaN,
     std_infeas |-> NaN, avg_subopt |-> NaN, std_subopt |-> NaN]

\* performance(theta): results_test is what the exact solver returns for
\* theta, solved what self.solve(theta) computes for it
performance(o, solved, results_test) ==
    LET n_test == Len(results_test)
        infeas == [i \in 1..Len(solved) |->
                     Rat(solved[i].infeasibility, 1)]
        subopt == [i \in 1..n_test |->
                     suboptimality(solved[i].cost, results_test[i].cost)]
        acc == accuracy(solved, results_test)
    IN IF ~returns_list(solved)
       THEN [err |-> "TypeError: string indices must be integers",
             stats |-> NoStats]
       ELSE IF o.sampler.isNone
       THEN [err |-> "AttributeError: _sampler", stats |-> NoStats]
       ELSE [err |-> "none",
             stats |->
               [n_test |-> n_test,
                good_turing |-> o.sampler,
                n_correct |-> Sum(acc.idx_correct),
                accuracy |-> acc.accuracy,
                n_infeas |->
                   Cardinality({ i \in 1..n_test :
                                   solved[i].infeasibility >= INFEAS_TOL }),
                avg_infeas |-> np_mean(infeas),
                std_infeas |-> np_std_squared(infeas),
                avg_subopt |->
                   np_mean(take(subopt,
                                { i \in 1..n_test :
                                    solved[i].infeasibility <= INFEAS_TOL })),
                std_subopt |->
                   np_std_squared(take(subopt,
                                { i \in 1..n_test :
                                    solved[i].infeasibility <= INFEAS_TOL }))]]

---------------------------------------------------------------------------
(* Specification of the evaluation of a test set *)

\* a predicted result: its strategy, an infeasibility below, at or above
\* the tolerance, its cost
PredictedResults ==
    [strategy : {1, 2},
     infeasibility : {0, INFEAS_TOL, INFEAS_TOL + 1},
     cost : {1, 2, 3}]

\* an exact result: the true strategy and the optimal cost
ExactResults == [strategy : {1}, cost : {1, 3}]

NoEvaluation ==
    [op |-> "init", err |-> "none", results_pred |-> <<>>,
     results_test |-> <<>>, accuracy |-> NaN, idx_correct |-> <<>>,
     stats |-> NoStats]

InitEvaluate ==
    /\ is_qp = FALSE
    /\ exact = ServeExact
    /\ \E o \in TrainedOptimizers(FALSE) :
         /\ X_train = o.X_train /\ y_train = o.y_train
         /\ encoding = o.encoding /\ obj_train = o.obj_train
         /\ encoding_full = o.encoding_full /\ y_train_full = o.y_train_full
         /\ solver_cache = o.solver_cache /\ learner = o.learner
         /\ sampler = o.sampler /\ theta = o.theta
         /\ disc_relaxed = o.disc_relaxed
    /\ \E n \in 1..MaxPoints :
         \E results_pred \in [1..n -> PredictedResults],
            results_test \in [1..n -> ExactResults] :
           last = [NoEvaluation EXCEPT !.results_pred = results_pred,
                                       !.results_test = results_test]

Accuracy ==
    /\ last.op = "init"
    /\ LET a == accuracy(last.results_pred, last.results_test)
       IN last' = [last EXCEPT !.op = "accuracy", !.accuracy = a.accuracy,
                               !.idx_correct = a.idx_correct]
    /\ UNCHANGED <<X_train, y_train, encoding, obj_train, encoding_full,
                   y_train_full, solver_cache, learner, sampler, theta,
                   disc_relaxed, is_qp, exact>>

Performance ==
    /\ last.op = "init"
    /\ LET r == performance(Self, last.results_pred, last.results_test)
       IN last' = [last EXCEPT !.op = "performance", !.err = r.err,
                               !.stats = r.stats]
    /\ UNCHANGED <<X_train, y_train, encoding, obj_train, encoding_full,
                   y_train_full, solver_cache, learner, sampler, theta,
                   disc_relaxed, is_qp, exact>>

NextEvaluate == Accuracy \/ Performance

SpecEvaluate == InitEvaluate /\ [][NextEvaluate]_vars

\* C13: accuracy marks a point correct exactly when the predicted strategy
\* is the true one, or the predicted result has infeasibility <= INFEAS_TOL
\* and a suboptimality of at most SUBOPT_TOL; the accuracy it returns is the
\* number of correct points over the number of points, between 0 and 1.
C13_AccuracyCountsCorrectPoints ==
    last.op = "accuracy" =>
       LET n == Len(last.results_pred)
           correct ==
             { i \in 1..n :
                 \/ last.results_pred[i].strategy =
                       last.results_test[i].strategy
                 \/ /\ last.results_pred[i].infeasibility <= INFEAS_TOL
                    /\ last.results_pred[i].cost - last.results_test[i].cost
                          <= SUBOPT_TOL * Abs(last.results_test[i].cost) }
       IN /\ Len(last.idx_correct) = n
          /\ \A i \in 1..n : last.idx_correct[i] = 1 <=> i \in correct
          /\ \A i \in 1..n : last.idx_correct[i] \in {0, 1}
          /\ last.accuracy = Rat(Cardinality(correct), n)
          /\ 0 <= last.accuracy.num /\ last.accuracy.num <= last.accuracy.den

\* two points with a strategy other than the true one: the first feasible
\* and as close as the tolerance allows, the second close but infeasible;
\* the accuracy is one half
C13_Witness ==
    /\ last.op = "accuracy"
    /\ Len(last.results_pred) = 2
    /\ \A i \in 1..2 :
          /\ last.results_pred[i].strategy # last.results_test[i].strategy
          /\ last.results_pred[i].cost = 2 /\ last.results_test[i].cost = 1
    /\ last.results_pred[1].infeasibility = INFEAS_TOL
    /\ last.results_pred[2].infeasibility > INFEAS_TOL
    /\ last.idx_correct = <<1, 0>>
    /\ last.accuracy = Rat(1, 2)

\* the test points of the last performance call within the tolerance
FeasibleTestPoints ==
    { i \in 1..Len(last.results_pred) :
        last.results_pred[i].infeasibility <= INFEAS_TOL }

\* two statistics are the same number, or both undefined
SameStatistic(a, b) ==
    IF IsNaN(a) \/ IsNaN(b) THEN IsNaN(a) /\ IsNaN(b) ELSE RatEq(a, b)

\* C14: the mean and standard deviation of infeasibility and of
\* suboptimality that performance reports are computed over the feasible
\* test points only (infeasibility <= INFEAS_TOL), and n_infeas counts
\* exactly the points that are not feasible.
C14_StatisticsOverFeasiblePoints ==
    (last.op = "performance" /\ last.err = "none") =>
       LET infeas == [i \in 1..Len(last.results_pred) |->
                        Rat(last.results_pred[i].infeasibility, 1)]
           subopt == [i \in 1..Len(last.results_pred) |->
                        suboptimality(last.results_pred[i].cost,
                                      last.results_test[i].cost)]
       IN /\ SameStatistic(last.stats.avg_infeas,
                           np_mean(take(infeas, FeasibleTestPoints)))
          /\ SameStatistic(last.stats.std_infeas,
                           np_std_squared(take(infeas, FeasibleTestPoints)))
          /\ SameStatistic(last.stats.avg_subopt,
                           np_mean(take(subopt, FeasibleTestPoints)))
          /\ SameStatistic(last.stats.std_subopt,
                           np_std_squared(take(subopt, FeasibleTestPoints)))
          /\ last.stats.n_infeas =
                Len(last.results_pred) - Cardinality(FeasibleTestPoints)

---------------------------------------------------------------------------
(* Further properties of the training life cycle, checked under Spec *)

\* C15: whenever a train, get_samples or filter_strategies call has
\* returned, a non-empty solver cache has one entry per id of the current
\* encoding, entry i built from the strategy encoding[i].
C15_CacheMatchesEncoding ==
    (last.op \in {"train", "get_samples", "filter_strategies"}
       /\ last.err = "none"
       /\ ~solver_cache.isNone /\ solver_cache.v # <<>>) =>
       /\ ~encoding.isNone
       /\ Len(solver_cache.v) = Len(encoding.v)
       /\ \A i \in 1..Len(solver_cache.v) :
             solver_cache.v[i] = cache_entry(Self, i - 1)

\* C16: when the factorization of one strategy fails in cache_factors, the
\* other strategies still get their cache entries, position i of the cache
\* belonging to strategy id i, and the discrete variables of the problem
\* are restored.
C16_FactorizationFailureContained ==
    (last.op \in {"cache_factors", "train"}
       /\ last.err = "RuntimeError: factorization") =>
       /\ ~disc_relaxed
       /\ ~solver_cache.isNone
       /\ Len(solver_cache.v) = Len(encoding.v)
       /\ \A i \in 1..Len(solver_cache.v) :
             solver_cache.v[i] \in {NoEntry, cache_entry(Self, i - 1)}

\* the encoding step on the current training points: their strategies,
\* encoded and not filtered
unfiltered(o) ==
    encode_strategies([i \in 1..Len(o.X_train.v) |-> exact[o.X_train.v[i]]])

\* C17: after one or more filter_strategies calls that follow an encoding
\* step, encoding_full and y_train_full hold the unfiltered encoding and
\* labels that the encoding step produced.
C17_BackupIsUnfiltered ==
    (last.op = "filter_strategies" /\ last.err = "none") =>
       /\ encoding_full = Some(unfiltered(Self).encoding)
       /\ y_train_full = Some(unfiltered(Self).labels)

\* "good_turing": self._sampler.good_turing, as performance reports it
reported_good_turing(o) == o.sampler

\* C18: the Good-Turing estimate that performance reports is the one of the
\* current y_train, after every call that encodes new samples or replaces
\* the labels by filtering.
C18_GoodTuringOfCurrentLabels ==
    (last.err = "none" /\ samples_present(Self) /\ ~sampler.isNone) =>
       reported_good_turing(Self) = compute_good_turing(y_train.v)

====
